---------------------------- MODULE Spec2Model ----------------------------
(***************************************************************************)
(* Kernel smoothing engines of pyqt_fit/kernel_smoothing.py and the        *)
(* design-matrix algebra they share.                                        *)
(*                                                                          *)
(* Numbers.  Arrays hold floating point numbers in the program; the model   *)
(* computes with exact rationals <<numerator, denominator>> in lowest       *)
(* terms, so rounding is abstracted and nothing else.  Python indices are   *)
(* 0-based, TLA+ sequences 1-based: Python's a[k] is a[k+1] here.           *)
(***************************************************************************)
EXTENDS Integers, Sequences, FiniteSets, TLC

VARIABLES
    dmX, dmDeg, dmCall, dmRet,   \* a call of the design-matrix functions
    self,                        \* the engine object: its attributes
    exc,                         \* exception the last call raised, or "none"
    last,                        \* the last call made on the engine
    ret                          \* what the last call returned

dmVars == <<dmX, dmDeg, dmCall, dmRet>>
engVars == <<self, exc, last, ret>>
vars == <<dmX, dmDeg, dmCall, dmRet, self, exc, last, ret>>

(***************************************************************************)
(* Bounds of the model.                                                     *)
(***************************************************************************)
MaxDim == 3
MaxDeg == 3
MaxN == 2
MaxQ == 1
MaxPts == 2

(***************************************************************************)
(* Exact rational arithmetic.                                               *)
(***************************************************************************)
Abs(a) == IF a < 0 THEN -a ELSE a

RECURSIVE GCD(_, _)
GCD(a, b) == IF b = 0 THEN a ELSE GCD(b, a % b)

Rat(n, d) ==
    LET g == GCD(Abs(n), Abs(d))
        s == IF d < 0 THEN -1 ELSE 1
    IN  <<(s * n) \div g, (s * d) \div g>>

Q(n) == <<n, 1>>
RAdd(a, b) == Rat(a[1] * b[2] + b[1] * a[2], a[2] * b[2])
RSub(a, b) == Rat(a[1] * b[2] - b[1] * a[2], a[2] * b[2])
RMul(a, b) == Rat(a[1] * b[1], a[2] * b[2])
RDiv(a, b) == Rat(a[1] * b[2], a[2] * b[1])
RNeg(a) == <<-a[1], a[2]>>
RLeq(a, b) == a[1] * b[2] <= b[1] * a[2]
RAbs(a) == <<Abs(a[1]), a[2]>>

RECURSIVE RPow(_, _)
RPow(a, n) == IF n = 0 THEN Q(1) ELSE RMul(a, RPow(a, n - 1))

\* None, for an optional array argument or an unset field.
None == <<>>
\* An element of an array from np.empty: no number yet.
Uninit == <<0, 0>>

RECURSIVE Fact(_)
Fact(n) == IF n <= 0 THEN 1 ELSE n * Fact(n - 1)

RECURSIVE SumSeq(_)
SumSeq(s) == IF s = <<>> THEN 0 ELSE Head(s) + SumSeq(Tail(s))

\* An array as stored: every entry computed once (a 1-D and a 2-D array).
Arr1(s) == SubSeq(s, 1, Len(s))
Arr2(A) == Arr1([i \in 1..Len(A) |-> Arr1(A[i])])

(***************************************************************************)
(* designMatrixSize(dim, deg, factors), lines 334-367.                      *)
(***************************************************************************)
\* Mutant of SizeInner: dp taken from old_dims[j+1] instead of old_dims[j].
RECURSIVE SizeInnerShifted(_, _, _, _, _)
SizeInnerShifted(j, dim, diff, old_dims, st) ==
    IF j >= dim THEN st
    ELSE LET dp == diff - old_dims[j + 2]
         IN  SizeInnerShifted(j + 1, dim, diff, old_dims,
                       [cur  |-> st.cur + dp,
                        dims |-> [st.dims EXCEPT ![j + 2] = st.dims[j + 1] + dp]])

\* for j in xrange(dim): lines 359-362.  st = [cur, dims]
RECURSIVE SizeInner(_, _, _, _, _)
SizeInner(j, dim, diff, old_dims, st) ==
    IF j >= dim THEN st
    ELSE LET dp == diff - old_dims[j + 1]
         IN  SizeInner(j + 1, dim, diff, old_dims,
                       [cur  |-> st.cur + dp,
                        dims |-> [st.dims EXCEPT ![j + 2] = st.dims[j + 1] + dp]])

\* Mutant of NextFact: "fact = (i+1)" for "fact *= (i+1)".
NextFactAssigned(fact, i) == i + 1

\* Taylor factor of degree level i (0-based): fact *= (i+1), line 358.
NextFact(fact, i) == fact * (i + 1)

\* Lines 363-364 and the loop's bookkeeping once the inner loop has run: the
\* level's rows get the factor fact.
SizeLevel(st, fact, inner) ==
    [cur  |-> inner.cur,
     prev |-> st.cur,
     dims |-> inner.dims,
     fact |-> fact,
     fcts |-> st.fcts \o [k \in 1..(inner.cur - st.cur) |-> fact]]

\* for i in xrange(deg): lines 354-364.  st = [cur, prev, dims, fact, fcts]
RECURSIVE SizeOuter(_, _, _, _)
SizeOuter(i, dim, deg, st) ==
    IF i >= deg THEN st
    ELSE SizeOuter(i + 1, dim, deg,
                   SizeLevel(st, NextFact(st.fact, i),
                             SizeInner(0, dim, st.cur - st.prev, st.dims,
                                       [cur |-> st.cur, dims |-> st.dims])))

SizeRun(dim, deg) ==
    SizeOuter(0, dim, deg,
              [cur  |-> 1,
               prev |-> 0,
               dims |-> [k \in 1..(dim + 1) |-> 0],
               fact |-> 1,
               fcts |-> <<1>>])

\* Returns cur, or <<cur, fcts>> when factors is true.
designMatrixSize(dim, deg, factors) ==
    LET r == SizeRun(dim, deg)
    IN  IF factors THEN <<r.cur, r.fcts>> ELSE r.cur

(***************************************************************************)
(* designMatrix(x, deg, factors, out), lines 369-405.  x is a sequence of   *)
(* dim rows of N rationals (np.atleast_2d already applied by the caller's   *)
(* data being 2-D); out is None or a preallocated sequence of rows.         *)
(* The result is [exc, out]: exc is "none" or the exception raised.         *)
(***************************************************************************)
RowMul(a, b) == Arr1([n \in 1..Len(a) |-> RMul(a[n], b[n])])

\* for k in xrange(old_dims[j], prev): lines 397-399.  st = [out, cur, exc]
RECURSIVE MatInnerK(_, _, _, _, _)
MatInnerK(k, prev, j, x, st) ==
    IF k >= prev \/ st.exc # "none" THEN st
    ELSE IF st.cur >= Len(st.out)
         THEN [st EXCEPT !.exc = "IndexError"]
         ELSE MatInnerK(k + 1, prev, j, x,
                        [out |-> [st.out EXCEPT ![st.cur + 1] =
                                      RowMul(st.out[k + 1], x[j + 1])],
                         cur |-> st.cur + 1,
                         exc |-> "none"])

\* for j in xrange(x.shape[0]): lines 395-399.  st = [out, cur, dims, exc]
RECURSIVE MatInnerJ(_, _, _, _, _)
MatInnerJ(j, prev, old_dims, x, st) ==
    IF j >= Len(x) \/ st.exc # "none" THEN st
    ELSE MatInnerJ(j + 1, prev, old_dims, x,
                   MatInnerK(old_dims[j + 1], prev, j, x,
                             [out |-> st.out, cur |-> st.cur, exc |-> "none"])
                   @@ [dims |-> [st.dims EXCEPT ![j + 1] = st.cur]])

\* Mutant of MatOuter: the level reads the dims it is writing (no old_dims copy).
RECURSIVE MatOuterNoCopy(_, _, _, _)
MatOuterNoCopy(i, deg, x, st) ==
    IF i >= deg \/ st.exc # "none" THEN st
    ELSE MatOuterNoCopy(i + 1, deg, x,
                        MatInnerJ(0, st.cur, [st.dims EXCEPT ![1] = st.cur], x, st))

\* for i in xrange(deg): lines 392-399.
RECURSIVE MatOuter(_, _, _, _)
MatOuter(i, deg, x, st) ==
    IF i >= deg \/ st.exc # "none" THEN st
    ELSE MatOuter(i + 1, deg, x, MatInnerJ(0, st.cur, st.dims, x, st))

\* out /= factors, lines 400-404: a 1-D factors becomes a column that is
\* broadcast along the rows; its length must be the row count (or 1).
DivideByFactors(out, factors) ==
    IF Len(factors) = Len(out)
    THEN [exc |-> "none",
          out |-> Arr2([k \in 1..Len(out) |->
                      [n \in 1..Len(out[k]) |-> RDiv(out[k][n], Q(factors[k]))]])]
    ELSE IF Len(factors) = 1
    THEN [exc |-> "none",
          out |-> Arr2([k \in 1..Len(out) |->
                      [n \in 1..Len(out[k]) |-> RDiv(out[k][n], Q(factors[1]))]])]
    ELSE [exc |-> "ValueError", out |-> out]

\* out[0,:] = 1, line 390.
FirstRowOnes(out) == [out EXCEPT ![1] = Arr1([n \in 1..Len(out[1]) |-> Q(1)])]

\* Lines 400-405 once the loops have left r = [out, cur, dims, exc].
Scaled(factors, r) ==
    IF r.exc # "none" THEN [exc |-> r.exc, out |-> r.out]
    ELSE IF factors = None THEN [exc |-> "none", out |-> r.out]
    ELSE DivideByFactors(r.out, factors)

designMatrix(x, deg, factors, out) ==
    Scaled(factors,
           MatOuter(0, deg, x,
                    [out  |-> FirstRowOnes(
                                  IF out = None
                                  THEN Arr2([k \in 1..designMatrixSize(Len(x), deg, FALSE) |->
                                                [n \in 1..Len(x[1]) |-> Uninit]])
                                  ELSE out),
                     cur  |-> 1,
                     dims |-> [k \in 1..(Len(x) + 1) |-> 0],
                     exc  |-> "none"]))

(***************************************************************************)
(* Values the engines handle.  A Python float is Sc(r); a 1-D ndarray       *)
(* Vec(<<..>>); a 2-D ndarray Mat(<<row, ..>>); None is NoneV; a callable   *)
(* covariance estimator is Fn(name).                                        *)
(***************************************************************************)
Sc(r) == [s |-> r]
Vec(v) == [v |-> v]
Mat(m) == [m |-> m]
NoneV == [none |-> TRUE]
Fn(name) == [estimator |-> name]

IsSc(a) == DOMAIN a = {"s"}
IsVec(a) == DOMAIN a = {"v"}
IsMat(a) == DOMAIN a = {"m"}
IsNone(a) == DOMAIN a = {"none"}
callable(a) == DOMAIN a = {"estimator"}

\* ndarray.shape
Shape(a) ==
    IF IsVec(a) THEN <<Len(a.v)>>
    ELSE IF IsMat(a) THEN <<Len(a.m), Len(a.m[1])>>
    ELSE <<>>

atleast_1d(a) == IF IsSc(a) THEN Vec(<<a.s>>) ELSE a

atleast_2d(a) ==
    IF IsSc(a) THEN Mat(<< <<a.s>> >>)
    ELSE IF IsVec(a) THEN Mat(<<a.v>>)
    ELSE a

\* float(a): a number, or an array holding exactly one number.
float(a) ==
    IF IsSc(a) THEN [exc |-> "none", val |-> a.s]
    ELSE IF IsVec(a) /\ Len(a.v) = 1 THEN [exc |-> "none", val |-> a.v[1]]
    ELSE IF IsMat(a) /\ Shape(a) = <<1, 1>> THEN [exc |-> "none", val |-> a.m[1][1]]
    ELSE [exc |-> "TypeError", val |-> Uninit]

\* np.sqrt on a float that is a perfect square (the covariances of the model).
sqrt(r) == Q(CHOOSE k \in 0..r[1] : k * k = r[1])

(***************************************************************************)
(* Linear algebra on matrices of rationals (scipy.linalg).                  *)
(***************************************************************************)
RECURSIVE RSum(_)
RSum(s) == IF s = <<>> THEN Q(0) ELSE RAdd(Head(s), RSum(Tail(s)))

Dot(a, b) == RSum([n \in 1..Len(a) |-> RMul(a[n], b[n])])

Column(B, n) == Arr1([k \in 1..Len(B) |-> B[k][n]])

MatMul(A, B) ==
    Arr2([i \in 1..Len(A) |-> [j \in 1..Len(B[1]) |-> Dot(A[i], Column(B, j))]])

Transpose(A) == Arr2([j \in 1..Len(A[1]) |-> Column(A, j)])

Drop(s, i) == Arr1([k \in 1..(Len(s) - 1) |-> IF k < i THEN s[k] ELSE s[k + 1]])

Minor(A, i, j) == Arr2([r \in 1..(Len(A) - 1) |-> Drop(Drop(A, i)[r], j)])

\* d when k is even, -d when k is odd.
Signed(k, d) == IF k % 2 = 0 THEN d ELSE RNeg(d)

\* The first row with a non-zero entry in the first column.
Pivot(A) == CHOOSE i \in 1..Len(A) : A[i][1] # Q(0) /\ \A k \in 1..(i - 1) : A[k][1] = Q(0)

\* The rows other than the pivot row p, cleared in the first column, without
\* that column.
Eliminated(A, p, rest) ==
    Arr2([r \in 1..Len(rest) |-> [c \in 1..Len(rest) |->
             RSub(rest[r][c + 1], RDiv(RMul(rest[r][1], A[p][c + 1]), A[p][1]))]])

\* The determinant by elimination on the first column; moving the pivot row
\* p to the top changes the sign when p is even.
RECURSIVE Det(_)
DetBy(A, p) == Signed(p - 1, RMul(A[p][1], Det(Eliminated(A, p, Drop(A, p)))))

Det(A) ==
    IF Len(A) = 1 THEN A[1][1]
    ELSE IF \A i \in 1..Len(A) : A[i][1] = Q(0) THEN Q(0)
    ELSE DetBy(A, Pivot(A))

\* Entry (i, j) of the inverse of A, whose determinant is d # 0.
InverseEntry(A, d, i, j) ==
    IF Len(A) = 1 THEN RDiv(Q(1), d)
    ELSE RDiv(Signed(i + j, Det(Minor(A, j, i))), d)

Inverse(A, d) ==
    Arr2([i \in 1..Len(A) |-> [j \in 1..Len(A) |-> InverseEntry(A, d, i, j)]])

IsSquare(A) == Len(A) = Len(A[1])

InverseOrError(A, d) ==
    IF d = Q(0) THEN [exc |-> "LinAlgError", val |-> NoneV]
    ELSE [exc |-> "none", val |-> Mat(Inverse(A, d))]

\* scipy.linalg.inv(a): a 2-D square array, LinAlgError when singular.
inv(a) ==
    IF ~IsMat(a) \/ ~IsSquare(a.m) THEN [exc |-> "ValueError", val |-> NoneV]
    ELSE InverseOrError(a.m, Det(a.m))

RowTimes(r, B) == Arr1([n \in 1..Len(B[1]) |-> Dot(r, Column(B, n))])

SolveBy(A, B, d) ==
    IF d = Q(0) THEN [exc |-> "LinAlgError", x |-> None]
    ELSE [exc |-> "none",
          x |-> RowTimes(Arr1([k \in 1..Len(A) |-> InverseEntry(A, d, 1, k)]), B)]

\* scipy.linalg.solve(A, B)[0] for a square A: the first row of the solution
\* X of A X = B, LinAlgError when A is singular.
solveRow0(A, B) == SolveBy(A, B, Det(A))

\* Largest k with k*k <= n.
RootBound(n) == CHOOSE k \in 0..n : k * k <= n /\ (k + 1) * (k + 1) > n

RECURSIVE LeadingMinorsPositive(_, _)
LeadingMinorsPositive(B, k) ==
    k = 0 \/ (/\ Det([i \in 1..k |-> [j \in 1..k |-> B[i][j]]])[1] > 0
              /\ LeadingMinorsPositive(B, k - 1))

\* np.real(sqrtm(a)): the principal square root of a 2-D square array (the
\* covariances of the model are squares of symmetric positive definite
\* matrices with small non-negative integer entries); ValueError when a is
\* not a matrix.
sqrtm(a) ==
    IF ~IsMat(a) \/ ~IsSquare(a.m) THEN [exc |-> "ValueError", val |-> NoneV]
    ELSE LET d  == Len(a.m)
             rb == [i \in 1..d |-> RootBound(a.m[i][i][1])]
             B  == CHOOSE b \in [1..d -> [1..d -> 0..RootBound(a.m[1][1][1] + a.m[d][d][1])]] :
                      /\ \A i, j \in 1..d : b[i][j] = b[j][i] /\ b[i][j] <= rb[i]
                      /\ LeadingMinorsPositive([i \in 1..d |-> [j \in 1..d |-> Q(b[i][j])]], d)
                      /\ MatMul([i \in 1..d |-> [j \in 1..d |-> Q(b[i][j])]],
                                [i \in 1..d |-> [j \in 1..d |-> Q(b[i][j])]]) = a.m
         IN  [exc |-> "none", val |-> Mat([i \in 1..d |-> [j \in 1..d |-> Q(B[i][j])]])]

(***************************************************************************)
(* The covariance estimators an engine is given (kde.scotts_bandwidth and   *)
(* the like live outside this module): a function of (xdata, ydata).        *)
(* "variance" returns a float, "matrix" a d x d array, both growing with    *)
(* the number of samples.                                                   *)
(***************************************************************************)
NSamples(xdata) == IF IsVec(xdata) THEN Len(xdata.v) ELSE Len(xdata.m[1])
NDims(xdata) == IF IsVec(xdata) THEN 1 ELSE Len(xdata.m)

Invoke(cov, xdata, ydata) ==
    LET n == NSamples(xdata)
        d == NDims(xdata)
    IN  IF cov.estimator = "variance" THEN Sc(Q(n * n))
        ELSE Mat([i \in 1..d |-> [j \in 1..d |-> IF i = j THEN Q(n * n) ELSE Q(0)]])

(***************************************************************************)
(* The engine object.  Attributes a class does not have stay at their       *)
(* unset values (NoneV, -1).                                                *)
(***************************************************************************)
NoObject ==
    [kind |-> "none", alive |-> FALSE,
     xdata |-> NoneV, ydata |-> NoneV, n |-> -1, d |-> -1, q |-> -1,
     covariance |-> NoneV, bw |-> NoneV, inv_cov |-> NoneV, correction |-> NoneV]

\* The names bound at module level: the imports of lines 7-17 and the
\* classes and functions the module defines.
ModuleGlobals ==
    {"stats", "gamma", "sqrtm", "solve", "scipy", "np", "cyth", "cy_local_linear",
     "scotts_bandwidth", "normal_kernel", "SpatialAverage", "LocalLinearKernel1D",
     "LocalPolynomialKernel1D", "designMatrixSize", "designMatrix",
     "LocalPolynomialKernel"}

\* Names bound inside SpatialAverage.covariance's setter: its parameters and
\* the local it assigns.
SA_SetterLocals == {"self", "cov", "_cov"}

\* Lines 78-80: store the resolved covariance, clear the cached bandwidth,
\* invert.  The first two assignments are done when inv raises.
SA_invert(o1, i) ==
    IF i.exc # "none" THEN [self |-> o1, exc |-> i.exc, entered |-> TRUE]
    ELSE [self |-> [o1 EXCEPT !.inv_cov = i.val], exc |-> "none", entered |-> TRUE]

SA_store(obj, _cov) ==
    SA_invert([obj EXCEPT !.bw = NoneV, !.covariance = _cov], inv(_cov))

\* SpatialAverage.covariance setter, lines 72-80.  Both branches read the
\* name bw, which is bound neither in the setter nor at module level:
\* evaluating it raises NameError before anything is stored.
SA_setCovariance(obj, cov) ==
    IF "bw" \notin (SA_SetterLocals \cup ModuleGlobals)
    THEN [self |-> obj, exc |-> "NameError", entered |-> TRUE]
    ELSE SA_store(obj, atleast_2d(cov))

\* SpatialAverage.bandwidth getter, lines 54-61: computed on first read and
\* cached.  Returns [self, val].
SA_cache(obj, b) == [self |-> [obj EXCEPT !.bw = b], val |-> b]

SA_bandwidth(obj) ==
    IF IsNone(obj.bw) /\ ~IsNone(obj.covariance)
    THEN SA_cache(obj, sqrtm(obj.covariance).val)
    ELSE [self |-> obj, val |-> obj.bw]

\* SpatialAverage.__init__, lines 41-52.
SA_rest(r) ==
    IF r.exc # "none" THEN r
    ELSE [self |-> [r.self EXCEPT !.d = Shape(r.self.xdata)[1],
                                  !.n = Shape(r.self.xdata)[2],
                                  !.correction = atleast_1d(Sc(Q(1))),
                                  !.alive = TRUE],
          exc |-> "none", entered |-> TRUE]

SA_init(xdata, ydata, q, cov) ==
    SA_rest(SA_setCovariance([NoObject EXCEPT !.kind = "SA",
                                              !.xdata = atleast_2d(xdata),
                                              !.ydata = ydata], cov))

\* A constructor whose last statement is the covariance assignment r: the
\* object exists when the assignment did not raise.
Constructed(r) == [r EXCEPT !.self.alive = (r.exc = "none")]

\* LocalLinearKernel1D.covariance setter, lines 190-197.
LL1_store(obj, f) ==
    IF f.exc # "none" THEN [self |-> obj, exc |-> f.exc, entered |-> TRUE]
    ELSE [self |-> [obj EXCEPT !.covariance = Sc(f.val), !.bw = Sc(sqrt(f.val))],
          exc |-> "none", entered |-> TRUE]

LL1_setCovariance(obj, cov) ==
    LL1_store(obj, float(IF callable(cov) THEN Invoke(cov, obj.xdata, obj.ydata) ELSE cov))

\* LocalLinearKernel1D.__init__, lines 159-167.
LL1_init(xdata, ydata, q, cov) ==
    Constructed(LL1_setCovariance(
        [NoObject EXCEPT !.kind = "LL1",
                         !.xdata = atleast_1d(xdata), !.ydata = atleast_1d(ydata),
                         !.n = Shape(xdata)[1]], cov))

\* LocalPolynomialKernel1D.covariance setter, lines 293-300.
LP1_store(obj, f) ==
    IF f.exc # "none" THEN [self |-> obj, exc |-> f.exc, entered |-> TRUE]
    ELSE [self |-> [obj EXCEPT !.covariance = Sc(f.val), !.bw = Sc(sqrt(f.val))],
          exc |-> "none", entered |-> TRUE]

LP1_setCovariance(obj, cov) ==
    LP1_store(obj, float(IF callable(cov) THEN Invoke(cov, obj.xdata, obj.ydata) ELSE cov))

\* LocalPolynomialKernel1D.__init__, lines 258-270.
LP1_init(xdata, ydata, q, cov) ==
    Constructed(LP1_setCovariance(
        [NoObject EXCEPT !.kind = "LP1",
                         !.xdata = atleast_1d(xdata), !.ydata = atleast_1d(ydata),
                         !.n = Shape(xdata)[1], !.q = q], cov))

\* LocalPolynomialKernel.covariance setter, lines 488-495: an estimator's
\* result is stored as returned, a literal through np.atleast_2d; the
\* covariance is stored before sqrtm runs.
LPN_root(o1, b) ==
    IF b.exc # "none" THEN [self |-> o1, exc |-> b.exc, entered |-> TRUE]
    ELSE [self |-> [o1 EXCEPT !.bw = b.val], exc |-> "none", entered |-> TRUE]

LPN_store(obj, _cov) == LPN_root([obj EXCEPT !.covariance = _cov], sqrtm(_cov))

LPN_setCovariance(obj, cov) ==
    LPN_store(obj, IF callable(cov) THEN Invoke(cov, obj.xdata, obj.ydata)
                                    ELSE atleast_2d(cov))

\* LocalPolynomialKernel.__init__, lines 453-465: d and n are unpacked from
\* the shape of the argument xdata, not of self.xdata.
LPN_init(xdata, ydata, q, cov) ==
    IF Len(Shape(xdata)) # 2
    THEN [self |-> [NoObject EXCEPT !.kind = "LPN", !.xdata = atleast_2d(xdata),
                                    !.ydata = atleast_1d(ydata)],
          exc |-> "ValueError", entered |-> FALSE]
    ELSE Constructed(LPN_setCovariance(
             [NoObject EXCEPT !.kind = "LPN", !.xdata = atleast_2d(xdata),
                              !.ydata = atleast_1d(ydata),
                              !.d = Shape(xdata)[1], !.n = Shape(xdata)[2], !.q = q], cov))

\* The covariance setter of the object's class.
setCovariance(obj, cov) ==
    CASE obj.kind = "SA"  -> SA_setCovariance(obj, cov)
      [] obj.kind = "LL1" -> LL1_setCovariance(obj, cov)
      [] obj.kind = "LP1" -> LP1_setCovariance(obj, cov)
      [] obj.kind = "LPN" -> LPN_setCovariance(obj, cov)

\* The bandwidth getter of the object's class (lines 169-174, 272-277,
\* 467-472 return self._bw).
bandwidth(obj) ==
    IF obj.kind = "SA" THEN SA_bandwidth(obj) ELSE [self |-> obj, val |-> obj.bw]

\* The constructor of class kind.
init(kind, xdata, ydata, q, cov) ==
    CASE kind = "SA"  -> SA_init(xdata, ydata, q, cov)
      [] kind = "LL1" -> LL1_init(xdata, ydata, q, cov)
      [] kind = "LP1" -> LP1_init(xdata, ydata, q, cov)
      [] kind = "LPN" -> LPN_init(xdata, ydata, q, cov)

(***************************************************************************)
(* The kernel an engine is given: kernel(points) returns one weight per     *)
(* scaled difference.  The model's kernel is the box kernel, 1 on [-1, 1]   *)
(* and 0 outside (for a vector: every component in [-1, 1]), whose weights  *)
(* are exact.                                                               *)
(***************************************************************************)
kernel(u) == IF RLeq(RAbs(u), Q(1)) THEN Q(1) ELSE Q(0)

kernelND(U, n) ==
    IF \A j \in 1..Len(U) : RLeq(RAbs(U[j][n]), Q(1)) THEN Q(1) ELSE Q(0)

(***************************************************************************)
(* The weighted least-squares step both polynomial engines share            *)
(* (lines 322-325 and 522-525).  Xx is held as M rows of N entries, Wx as   *)
(* N weights.  Result: [exc, val, solves], solves counting the calls of     *)
(* solve that were made.                                                    *)
(***************************************************************************)
\* Wx * Xx: every row of Xx weighted sample by sample.
Weighted(Xx, Wx) ==
    Arr2([k \in 1..Len(Xx) |-> [n \in 1..Len(Wx) |-> RMul(Wx[n], Xx[k][n])]])

\* XWX = np.dot(Xx, WxXx.T)
NormalMatrix(Xx, Wx) == MatMul(Xx, Transpose(Weighted(Xx, Wx)))

\* Lx = solve(XWX, WxXx)[0]
SolveNormal(Xx, WxXx) == solveRow0(MatMul(Xx, Transpose(WxXx)), WxXx)

\* output[i] = np.dot(Lx, self.ydata) for the outcome s of the solve.
Applied(s, y) ==
    IF s.exc # "none" THEN [exc |-> s.exc, val |-> Uninit, solves |-> 1]
    ELSE IF Len(y) # Len(s.x) THEN [exc |-> "ValueError", val |-> Uninit, solves |-> 1]
    ELSE [exc |-> "none", val |-> Dot(s.x, y), solves |-> 1]

Recovered(s, n) ==
    IF s.exc # "none" THEN [exc |-> "none", x |-> [k \in 1..n |-> Q(0)]] ELSE s

\* Mutant of WeightedSolve: a singular normal matrix is answered with a zero
\* first row instead of the solver's error.
WeightedSolveRecovering(Xx, Wx, y) ==
    Applied(Recovered(SolveNormal(Xx, Weighted(Xx, Wx)), Len(Wx)), y)

WeightedSolve(Xx, Wx, y) == Applied(SolveNormal(Xx, Weighted(Xx, Wx)), y)

\* np.empty(shape) for the output of an evaluate over m points.
EmptyVec(m) == [i \in 1..m |-> Uninit]

\* The output array: the caller's, or np.empty for m points.
OutArray(output, m) == IF IsNone(output) THEN EmptyVec(m) ELSE output.v

\* What the caller sees of a loop's state st.
Outcome(st) == [exc |-> st.exc, output |-> st.output, solves |-> st.solves, at |-> st.at]

(***************************************************************************)
(* LocalPolynomialKernel1D.evaluate, lines 302-326.  points is a 1-D array  *)
(* or a 2-D array of one column, whose rows enumerate() hands over one by   *)
(* one.  With a 2-D self.xdata the arrays of lines 319-323 have three and   *)
(* four axes and the step raises ValueError before anything is solved.      *)
(***************************************************************************)
LP1_design(obj, p) ==
    LET x  == obj.xdata.v
        dX == Arr1([n \in 1..Len(x) |-> RSub(x[n], p)])
    IN  Arr2([k \in 1..(obj.q + 1) |->
                [n \in 1..Len(x) |-> RDiv(RPow(dX[n], k - 1), Q(Fact(k - 1)))]])

LP1_weights(obj, p) ==
    LET x == obj.xdata.v
    IN  Arr1([n \in 1..Len(x) |-> kernel(RDiv(RSub(x[n], p), obj.bw.s))])

LP1_point(obj, p) ==
    IF IsMat(obj.xdata)
    THEN [exc |-> "ValueError", val |-> Uninit, solves |-> 0]
    ELSE WeightedSolve(LP1_design(obj, p), LP1_weights(obj, p), obj.ydata.v)

\* One turn of the loop body: r is what the step for point i came to.
LP1_turn(i, st, r) ==
    IF r.exc # "none"
    THEN [exc |-> r.exc, output |-> st.output, solves |-> st.solves + r.solves, at |-> i]
    ELSE [exc |-> "none", output |-> [st.output EXCEPT ![i + 1] = r.val],
          solves |-> st.solves + r.solves, at |-> -1]

\* for i,p in enumerate(points): st = [exc, output, solves, at]; an exception
\* leaves the loop.
RECURSIVE LP1_loop(_, _, _, _)
LP1_loop(i, obj, pts, st) ==
    IF i >= Len(pts) \/ st.exc # "none" THEN st
    ELSE LP1_loop(i + 1, obj, pts, LP1_turn(i, st, LP1_point(obj, pts[i + 1])))

PointList(points) ==
    IF IsVec(points) THEN points.v ELSE [i \in 1..Len(points.m) |-> points.m[i][1]]

LP1_run(obj, pts, output) ==
    LP1_loop(0, obj, pts,
             [exc |-> "none", output |-> OutArray(output, Len(pts)), solves |-> 0, at |-> -1])

LP1_evaluate(obj, points, output) == LP1_run(obj, PointList(points), output)

(***************************************************************************)
(* LocalPolynomialKernel.evaluate, lines 497-526.                           *)
(***************************************************************************)
\* xdata - points[:,i:i+1], line 519: a (d, N) array minus a (d', 1) column
\* under numpy's broadcasting.
LPN_diff(x, p) ==
    IF Len(p) = Len(x)
    THEN [exc |-> "none", dX |-> Arr2([j \in 1..Len(x) |-> [n \in 1..Len(x[1]) |-> RSub(x[j][n], p[j])]])]
    ELSE IF Len(p) = 1
    THEN [exc |-> "none", dX |-> Arr2([j \in 1..Len(x) |-> [n \in 1..Len(x[1]) |-> RSub(x[j][n], p[1])]])]
    ELSE IF Len(x) = 1
    THEN [exc |-> "none", dX |-> Arr2([j \in 1..Len(p) |-> [n \in 1..Len(x[1]) |-> RSub(x[1][n], p[j])]])]
    ELSE [exc |-> "ValueError", dX |-> None]

\* Wx = self.kernel(dot(inv_bw, dX)), line 520: one weight per sample.
LPN_weights(inv_bw, dX) ==
    Arr1([n \in 1..Len(dX[1]) |-> kernelND(MatMul(inv_bw, dX), n)])

\* Lines 523-525 once the design matrix call dm has returned.
LPN_solve(obj, Wx, dm) ==
    IF dm.exc # "none"
    THEN [exc |-> dm.exc, val |-> Uninit, solves |-> 0, Xx |-> dm.out]
    ELSE WeightedSolve(dm.out, Wx, obj.ydata.v) @@ [Xx |-> dm.out]

\* Lines 520-525 for the differences dX of line 519.
LPN_fit(obj, frac, inv_bw, Xx, dX) ==
    IF Len(inv_bw[1]) # Len(dX)
    THEN [exc |-> "ValueError", val |-> Uninit, solves |-> 0, Xx |-> Xx]
    ELSE LPN_solve(obj, LPN_weights(inv_bw, dX), designMatrix(dX, obj.q, frac, Xx))

\* Lines 519-525 for one query point p; Xx is the buffer allocated at 511.
LPN_point(obj, p, frac, inv_bw, Xx) ==
    IF LPN_diff(obj.xdata.m, p).exc # "none"
    THEN [exc |-> "ValueError", val |-> Uninit, solves |-> 0, Xx |-> Xx]
    ELSE LPN_fit(obj, frac, inv_bw, Xx, LPN_diff(obj.xdata.m, p).dX)

\* One turn of the loop body: r is what the step for point i came to.
LPN_turn(i, st, r) ==
    IF r.exc # "none"
    THEN [exc |-> r.exc, output |-> st.output, solves |-> st.solves + r.solves,
          at |-> i, Xx |-> r.Xx]
    ELSE [exc |-> "none", output |-> [st.output EXCEPT ![i + 1] = r.val],
          solves |-> st.solves + r.solves, at |-> -1, Xx |-> r.Xx]

\* for i in xrange(points.shape[1]): st = [exc, output, solves, at, Xx]; an
\* exception leaves the loop.
RECURSIVE LPN_loop(_, _, _, _, _, _)
LPN_loop(i, obj, pts, frac, inv_bw, st) ==
    IF i >= Len(pts[1]) \/ st.exc # "none" THEN st
    ELSE LPN_loop(i + 1, obj, pts, frac, inv_bw,
                  LPN_turn(i, st, LPN_point(obj, Column(pts, i + 1), frac, inv_bw, st.Xx)))

\* Lines 516-526 for the point array pts, the size and factors sz and the
\* outcome ib of inverting the bandwidth.
LPN_run(obj, pts, output, sz, ib) ==
    IF ib.exc # "none"
    THEN [exc |-> ib.exc, output |-> OutArray(output, Len(pts[1])), solves |-> 0, at |-> -1]
    ELSE Outcome(LPN_loop(0, obj, pts, sz[2], ib.val.m,
                          [exc |-> "none", output |-> OutArray(output, Len(pts[1])),
                           solves |-> 0, at |-> -1,
                           Xx |-> Arr2([k \in 1..sz[1] |-> [n \in 1..obj.n |-> Uninit]])]))

LPN_evaluate(obj, points, output) ==
    LPN_run(obj, atleast_2d(points).m, output,
            designMatrixSize(obj.d, obj.q, TRUE), inv(obj.bw))

(***************************************************************************)
(* SpatialAverage.evaluate, lines 83-107.  An energy is exp(-E/2) for a     *)
(* rational E, so result and norm are sums of terms c * exp(-E/2): such a   *)
(* sum is held as the set of its terms <<E, c>>, one per exponent E, and     *)
(* the value of a point as the pair [num, den] of two sums.                 *)
(***************************************************************************)
GOne == {<<Q(0), Q(1)>>}

GAdd(G, E, c) ==
    LET same == {t \in G : t[1] = E}
        c2   == IF same = {} THEN c ELSE RAdd(c, (CHOOSE t \in same : TRUE)[2])
    IN  (G \ same) \cup (IF c2 = Q(0) THEN {} ELSE {<<E, c2>>})

\* num / den, reduced to a rational when num is a rational multiple of den.
GQuot(num, den) ==
    IF num = {} THEN [num |-> {}, den |-> GOne]
    ELSE LET t0 == CHOOSE t \in num : TRUE
             d0 == {t \in den : t[1] = t0[1]}
         IN  IF d0 = {} THEN [num |-> num, den |-> den]
             ELSE LET r == RDiv(t0[2], (CHOOSE t \in d0 : TRUE)[2])
                  IN  IF num = {<<t[1], RMul(r, t[2])>> : t \in den}
                      THEN [num |-> {<<Q(0), r>>}, den |-> GOne]
                      ELSE [num |-> num, den |-> den]

\* exp(-E/2) > 1e-50 exactly when E < 100 ln 10 = 230.25...; a norm is a sum
\* of energies with weight 1 each.
EnergyCutoff == 230
NormAbove(G) == \E t \in G : RLeq(t[1], Q(EnergyCutoff)) /\ RLeq(Q(1), t[2])

\* np.broadcast(xrange(n), xrange(c)): the index pairs (i, ci), or
\* ValueError when the two lengths cannot be broadcast.
SA_pairs(n, c) ==
    IF n = c THEN [exc |-> "none", pairs |-> [k \in 1..n |-> <<k - 1, k - 1>>]]
    ELSE IF c = 1 THEN [exc |-> "none", pairs |-> [k \in 1..n |-> <<k - 1, 0>>]]
    ELSE IF n = 1 THEN [exc |-> "none", pairs |-> [k \in 1..c |-> <<0, k - 1>>]]
    ELSE [exc |-> "ValueError", pairs |-> <<>>]

\* Line 99: correction[ci] * (xdata[:,i,newaxis] - points), a (d, 1) column
\* minus a (d', m) array under broadcasting.
SA_diff(obj, i, ci, pts) ==
    LET x == Column(obj.xdata.m, i + 1)
        c == obj.correction.v[ci + 1]
        m == Len(pts[1])
    IN  IF Len(x) = Len(pts)
        THEN [exc |-> "none", diff |-> [j \in 1..Len(x) |-> [k \in 1..m |-> RMul(c, RSub(x[j], pts[j][k]))]]]
        ELSE IF Len(pts) = 1
        THEN [exc |-> "none", diff |-> [j \in 1..Len(x) |-> [k \in 1..m |-> RMul(c, RSub(x[j], pts[1][k]))]]]
        ELSE IF Len(x) = 1
        THEN [exc |-> "none", diff |-> [j \in 1..Len(pts) |-> [k \in 1..m |-> RMul(c, RSub(x[1], pts[j][k]))]]]
        ELSE [exc |-> "ValueError", diff |-> None]

\* energy = np.exp(-np.sum(diff*tdiff, axis=0)/2.0), lines 100-101, held as
\* the exponents E with energy = exp(-E/2).
SA_energies(diff, tdiff) ==
    Arr1([k \in 1..Len(diff[1]) |->
             RSum([j \in 1..Len(diff) |-> RMul(diff[j][k], tdiff[j][k])])])

\* Lines 102-103: result += ydata[i] * energy, norm += energy.
SA_accumulate(obj, i, st, E) ==
    [exc    |-> "none",
     result |-> [k \in 1..Len(E) |-> GAdd(st.result[k], E[k], obj.ydata.v[i + 1])],
     norm   |-> [k \in 1..Len(E) |-> GAdd(st.norm[k], E[k], Q(1))],
     solves |-> st.solves + 1,
     at     |-> -1]

\* Lines 100-103 for the outcome d of line 99.
SA_weigh(obj, i, st, d) ==
    IF d.exc # "none" THEN [st EXCEPT !.exc = d.exc, !.at = i]
    ELSE IF Len(obj.inv_cov.m[1]) # Len(d.diff) THEN [st EXCEPT !.exc = "ValueError", !.at = i]
    ELSE IF i >= Len(obj.ydata.v) THEN [st EXCEPT !.exc = "IndexError", !.at = i]
    ELSE SA_accumulate(obj, i, st, SA_energies(d.diff, MatMul(obj.inv_cov.m, d.diff)))

\* Lines 99-103 for one sample.  st = [exc, result, norm, solves, at]
SA_step(obj, i, ci, pts, st) == SA_weigh(obj, i, st, SA_diff(obj, i, ci, pts))

RECURSIVE SA_loop(_, _, _, _, _)
SA_loop(k, obj, pairs, pts, st) ==
    IF k > Len(pairs) \/ st.exc # "none" THEN st
    ELSE SA_loop(k + 1, obj, pairs, pts, SA_step(obj, pairs[k][1], pairs[k][2], pts, st))

\* Line 105: result[norm>1e-50] /= norm[norm>1e-50], for the loop's state st.
SA_normalised(st) ==
    [exc    |-> st.exc,
     output |-> [k \in 1..Len(st.norm) |->
                    IF NormAbove(st.norm[k]) THEN GQuot(st.result[k], st.norm[k])
                    ELSE GQuot(st.result[k], GOne)],
     solves |-> st.solves,
     at     |-> st.at]

\* The array the loop accumulates into: the caller's as it is when one is
\* passed (line 93 zeroes only the array the method allocates).
SA_result0(result, m) ==
    IF IsNone(result) THEN [k \in 1..m |-> {}]
    ELSE [k \in 1..m |-> GAdd({}, Q(0), result.v[k])]

SA_run(obj, pts, result, pr) ==
    SA_normalised(SA_loop(1, obj, pr.pairs, pts,
                          [exc |-> pr.exc, result |-> SA_result0(result, Len(pts[1])),
                           norm |-> [k \in 1..Len(pts[1]) |-> {}],
                           solves |-> 0, at |-> -1]))

SA_evaluate(obj, points, result) ==
    SA_run(obj, atleast_2d(points).m, result, SA_pairs(obj.n, Len(obj.correction.v)))

\* evaluate of the object's class.  LocalLinearKernel1D.evaluate hands the
\* work to cy_local_linear.cy_local_linear_1d, a compiled routine outside
\* this module, and is not modelled.
evaluate(obj, points, output) ==
    CASE obj.kind = "SA"  -> SA_evaluate(obj, points, output)
      [] obj.kind = "LP1" -> LP1_evaluate(obj, points, output)
      [] obj.kind = "LPN" -> LPN_evaluate(obj, points, output)

(***************************************************************************)
(* The engines' life: an engine is constructed, then its covariance is      *)
(* reassigned, its bandwidth read and evaluate called, in any order.        *)
(* Arguments are drawn from the sets below.                                 *)
(***************************************************************************)
Kinds == {"SA", "LL1", "LP1", "LPN"}

\* Sample rows of n values: 0, 1, 2, ..; for two dimensions the points
\* (0,0), (1,0), (0,1), (1,1), ..
Distinct(n) == [i \in 1..n |-> Q(i - 1)]
Paired(n) == [i \in 1..n |-> Q((i - 1) \div 2)]
Alternating(n) == [i \in 1..n |-> Q((i - 1) % 2)]

\* xdata as a (N,) array, a (1,N) array and a (2,N) array.
XArgs ==
    UNION {{Vec(Distinct(n)), Mat(<<Distinct(n)>>), Mat(<<Alternating(n), Paired(n)>>)} :
              n \in 1..MaxN}

YArgs == {Vec([i \in 1..n |-> Q(i * i)]) : n \in 1..MaxN}

CovArgs ==
    {Sc(Q(1)),
     Mat(<< <<Q(1), Q(0)>>, <<Q(0), Q(1)>> >>),
     Mat(<< <<Q(5), Q(4)>>, <<Q(4), Q(5)>> >>),
     Fn("variance"), Fn("matrix")}

\* A covariance that has no inverse.
SingularCov == Mat(<< <<Q(2), Q(2)>>, <<Q(2), Q(2)>> >>)

\* The covariances an engine of a kind is given: singular ones go to
\* SpatialAverage, the engine that inverts on assignment (line 80).
CovArgsOf(kind) == IF kind = "SA" THEN CovArgs \cup {SingularCov} ELSE CovArgs

\* Query coordinates: one among the samples, one far from all of them.
PVals == {Q(0), Q(5)}
PCols == {<<Q(0), Q(0)>>, <<Q(5), Q(5)>>}

Points1 == UNION {{Vec(p) : p \in [1..m -> PVals]} : m \in 1..MaxPts}
Points2 == UNION {{Mat(Transpose(c)) : c \in [1..m -> PCols]} : m \in 1..MaxPts}
PointsColumn == {Mat(<< <<v>> >>) : v \in PVals} \cup {Mat(Transpose(<<c>>)) : c \in PCols}

PointArgs(kind) == IF kind = "LP1" THEN Points1 \cup PointsColumn ELSE Points1 \cup Points2

NPoints(kind, points) ==
    IF IsVec(points) THEN Len(points.v)
    ELSE IF kind = "LP1" THEN Len(points.m) ELSE Len(points.m[1])

\* The caller's output array: none, or an array of the right length that
\* already holds numbers.
OutputArgs(kind, points) == {NoneV, Vec([i \in 1..NPoints(kind, points) |-> Q(7)])}

NoCall ==
    [op |-> "none", kind |-> "none", xarg |-> NoneV, yarg |-> NoneV,
     cov |-> NoneV, entered |-> FALSE, points |-> NoneV, output |-> NoneV]

DMIdle == dmX = None /\ dmDeg = 0 /\ dmCall = "none" /\ dmRet = None

Init ==
    /\ self = NoObject
    /\ exc = "none"
    /\ last = NoCall
    /\ ret = NoneV
    /\ DMIdle

\* The constructor has come to r = [self, exc, entered].
Built(kind, xdata, ydata, cov, r) ==
    /\ self' = r.self
    /\ exc' = r.exc
    /\ last' = [NoCall EXCEPT !.op = "new", !.kind = kind, !.xarg = xdata,
                              !.yarg = ydata, !.cov = cov, !.entered = r.entered]
    /\ ret' = NoneV
    /\ UNCHANGED dmVars

\* engine = Kind(xdata, ydata[, q], cov)
New ==
    /\ last.op = "none"
    /\ \E kind \in Kinds, xdata \in XArgs, ydata \in YArgs :
           \E cov \in CovArgsOf(kind), q \in IF kind \in {"LP1", "LPN"} THEN 0..MaxQ ELSE {-1} :
               Built(kind, xdata, ydata, cov, init(kind, xdata, ydata, q, cov))

\* The setter has come to r = [self, exc, entered].
Assigned(cov, r) ==
    /\ self' = r.self
    /\ exc' = r.exc
    /\ last' = [NoCall EXCEPT !.op = "set", !.kind = self.kind, !.cov = cov,
                              !.entered = r.entered]
    /\ ret' = NoneV
    /\ UNCHANGED dmVars

\* engine.covariance = cov
SetCovariance ==
    /\ self.alive
    /\ \E cov \in CovArgsOf(self.kind) : Assigned(cov, setCovariance(self, cov))

\* The getter has come to r = [self, val].
Read(r) ==
    /\ self' = r.self
    /\ exc' = "none"
    /\ last' = [NoCall EXCEPT !.op = "bandwidth", !.kind = self.kind, !.cov = last.cov]
    /\ ret' = r.val
    /\ UNCHANGED dmVars

\* engine.bandwidth
ReadBandwidth ==
    /\ self.alive
    /\ Read(bandwidth(self))

\* evaluate has come to r = [exc, output, solves, at]; the caller gets the
\* output only when nothing was raised.
Evaluated(points, output, r) ==
    /\ exc' = r.exc
    /\ last' = [NoCall EXCEPT !.op = "evaluate", !.kind = self.kind, !.cov = last.cov,
                              !.points = points, !.output = output]
    /\ ret' = [returned |-> r.exc = "none", output |-> r.output,
               solves |-> r.solves, at |-> r.at]
    /\ UNCHANGED <<self, dmVars>>

\* engine.evaluate(points[, output])
\* evaluate leaves the engine as it is, so a second call repeats the first:
\* one call is followed.
Evaluate ==
    /\ self.alive
    /\ last.op # "evaluate"
    /\ self.kind \in {"SA", "LP1", "LPN"}
    /\ \E points \in PointArgs(self.kind) :
           \E output \in OutputArgs(self.kind, points) :
               Evaluated(points, output, evaluate(self, points, output))

\* Construction, covariance assignments and bandwidth reads.
Next == New \/ SetCovariance \/ ReadBandwidth

Spec == Init /\ [][Next]_vars

\* Construction followed by evaluate.
EvalNext == New \/ Evaluate

SpecEval == Init /\ [][EvalNext]_vars

(***************************************************************************)
(* Calls of the two functions on inputs drawn from bounded sets.  The       *)
(* first column of x holds one distinct prime per dimension, so a product   *)
(* of entries of that column reveals the monomial it is; the second column  *)
(* ranges over DMVals.                                                      *)
(***************************************************************************)
Primes == <<2, 3, 5, 7, 11, 13>>
DMVals == {-1, 0, 2}

DMInputs ==
    UNION {{[j \in 1..dim |-> <<Q(Primes[j]), Q(c[j])>>] :
               c \in [1..dim -> DMVals]} : dim \in 1..MaxDim}

DMInit ==
    /\ dmX \in DMInputs
    /\ dmDeg \in 0..MaxDeg
    /\ dmCall = "none"
    /\ dmRet = None
    /\ self = NoObject /\ exc = "none" /\ last = NoCall /\ ret = NoneV

CallDesignMatrixSize ==
    \E f \in BOOLEAN :
        /\ dmCall' = IF f THEN "sizeFactors" ELSE "size"
        /\ dmRet' = designMatrixSize(Len(dmX), dmDeg, f)
        /\ UNCHANGED <<dmX, dmDeg, engVars>>

CallDesignMatrix ==
    \E wf \in BOOLEAN :
        /\ dmCall' = IF wf THEN "matrixFactors" ELSE "matrix"
        /\ dmRet' = designMatrix(dmX, dmDeg,
                                 IF wf THEN designMatrixSize(Len(dmX), dmDeg, TRUE)[2]
                                       ELSE None,
                                 None)
        /\ UNCHANGED <<dmX, dmDeg, engVars>>

DMNext == CallDesignMatrixSize \/ CallDesignMatrix

SpecDM == DMInit /\ [][DMNext]_vars

(***************************************************************************)
(* Properties of the design-matrix algebra (specification SpecDM).          *)
(***************************************************************************)
RECURSIVE Binom(_, _)
Binom(n, k) ==
    IF k = 0 \/ k = n THEN 1
    ELSE IF k < 0 \/ k > n THEN 0
    ELSE Binom(n - 1, k - 1) + Binom(n - 1, k)

\* The multi-indices in dim variables of total degree at most deg.
MultiIdx(dim, deg) == {e \in [1..dim -> 0..deg] : SumSeq(e) <= deg}

RECURSIVE Mult(_, _)
Mult(p, v) == IF v > 0 /\ v % p = 0 THEN 1 + Mult(p, v \div p) ELSE 0

RECURSIVE MonoVal(_, _, _, _)
\* x_1^e_1 * ... * x_j^e_j at column n of x
MonoVal(x, e, n, j) ==
    IF j = 0 THEN Q(1) ELSE RMul(RPow(x[j][n], e[j]), MonoVal(x, e, n, j - 1))

\* The exponents of the monomial a row is, read off its entry in the column
\* of primes.
RowExps(row, dim) == [j \in 1..dim |-> Mult(Primes[j], row[1][1])]

DmDim == Len(dmX)
PlainRows == designMatrix(dmX, dmDeg, None, None).out

\* C1: designMatrixSize(dim, deg) returns C(dim+deg, deg), the number of
\* multi-indices in dim variables of total degree at most deg.
C1_SizeIsBinomial ==
    dmCall = "size" =>
        /\ dmRet = Binom(DmDim + dmDeg, dmDeg)
        /\ dmRet = Cardinality(MultiIdx(DmDim, dmDeg))

C1_Witness == dmCall = "size" /\ DmDim = 3 /\ dmDeg = 3 /\ dmRet = 20

\* C2: designMatrix(x, deg) without factors writes exactly
\* designMatrixSize(dim, deg) rows, row 0 all ones, the rows being exactly
\* the monomials of total degree <= deg, each once, in non-decreasing total
\* degree; deg = 0 gives the single row of ones.
C2_RowsAreMonomials ==
    dmCall = "matrix" =>
        LET out == dmRet.out
            M   == Len(out)
            e   == [k \in 1..M |-> RowExps(out[k], DmDim)]
        IN  /\ dmRet.exc = "none"
            /\ M = designMatrixSize(DmDim, dmDeg, FALSE)
            /\ \A n \in 1..Len(out[1]) : out[1][n] = Q(1)
            /\ \A k \in 1..M : \A n \in 1..Len(out[k]) :
                   out[k][n] = MonoVal(dmX, e[k], n, DmDim)
            /\ {e[k] : k \in 1..M} = MultiIdx(DmDim, dmDeg)
            /\ Cardinality({e[k] : k \in 1..M}) = M
            /\ \A k \in 1..(M - 1) : SumSeq(e[k]) <= SumSeq(e[k + 1])
            /\ (dmDeg = 0 => M = 1)

C2_Witness ==
    /\ dmCall = "matrix" /\ DmDim = 2 /\ dmDeg = 2
    /\ Len(dmRet.out) = 6
    /\ dmRet.out[5][1] = Q(6)

\* C3: designMatrixSize(dim, deg, True) returns one factor per design-matrix
\* row, entry k being the factorial of the total degree of the monomial in
\* row k, and designMatrix with these factors yields each monomial divided
\* by (its total degree)!.
C3_FactorsAreDegreeFactorials ==
    LET plain == PlainRows
        M     == Len(plain)
        e     == [k \in 1..M |-> RowExps(plain[k], DmDim)]
    IN  /\ dmCall = "sizeFactors" =>
               /\ dmRet[1] = M
               /\ Len(dmRet[2]) = M
               /\ \A k \in 1..M : dmRet[2][k] = Fact(SumSeq(e[k]))
        /\ dmCall = "matrixFactors" =>
               /\ dmRet.exc = "none"
               /\ Len(dmRet.out) = M
               /\ \A k \in 1..M : \A n \in 1..Len(plain[k]) :
                      dmRet.out[k][n] =
                          RDiv(MonoVal(dmX, e[k], n, DmDim), Q(Fact(SumSeq(e[k]))))

C3_Witness ==
    /\ dmCall = "matrixFactors" /\ DmDim = 2 /\ dmDeg = 3
    /\ dmRet.out[10][1] = <<9, 2>>

(***************************************************************************)
(* The engines: covariance and bandwidth.                                   *)
(***************************************************************************)
\* The engines whose covariance is a single number.
OneD(kind) == kind \in {"LL1", "LP1"}

\* The covariance an argument stands for: an estimator's result on the
\* engine's data, or the literal.
Resolved(cov, xdata, ydata) == IF callable(cov) THEN Invoke(cov, xdata, ydata) ELSE cov

\* A covariance value in the rank of the engine: a float for the 1-D
\* engines, an at-least-2-D array for the others.
Ranked(kind, v) == IF OneD(kind) THEN Sc(float(v).val) ELSE atleast_2d(v)

\* The bandwidth that belongs to a stored covariance c.
RootOf(kind, c) ==
    IF OneD(kind) THEN Sc(sqrt(float(c).val)) ELSE sqrtm(atleast_2d(c)).val

\* A covariance value the engine's documentation admits: one number for the
\* 1-D engines; a number or an invertible square matrix for the others.
Admissible(kind, v) ==
    IF OneD(kind) THEN float(v).exc = "none"
    ELSE IsSc(v) \/ (IsMat(v) /\ IsSquare(v.m) /\ Det(v.m) # Q(0))

\* C4: in every engine a bandwidth read returns the (matrix) square root of
\* the covariance the engine holds from the most recent assignment, never
\* one derived from an earlier covariance.
C4_BandwidthIsRootOfLatestCovariance ==
    last.op = "bandwidth" => ret = RootOf(self.kind, self.covariance)

\* C5: a covariance assignment (the constructor's included) of an admissible
\* argument succeeds and stores the resolved value - the estimator's result
\* on (xdata, ydata) or the literal - in the engine's rank.
C5_AssignmentStoresRankedCovariance ==
    (/\ last.op \in {"new", "set"}
     /\ last.entered
     /\ Admissible(last.kind, Resolved(last.cov, self.xdata, self.ydata)))
    => /\ exc = "none"
       /\ self.covariance = Ranked(last.kind, Resolved(last.cov, self.xdata, self.ydata))

(***************************************************************************)
(* The engines: evaluate.                                                   *)
(***************************************************************************)
\* The value y as SpatialAverage.evaluate returns it.
Exactly(y) == [num |-> {<<Q(0), y>>}, den |-> GOne]

\* A literal covariance that is an invertible d x d matrix.
FixedInvertible(cov, d) ==
    /\ ~callable(cov)
    /\ inv(atleast_2d(cov)).exc = "none"
    /\ Len(atleast_2d(cov).m) = d

\* C6: a SpatialAverage constructed with one training point (x0, y0) and an
\* invertible fixed covariance exists and, evaluated at x0, returns exactly y0.
C6_SinglePointReturnsItsValue ==
    (/\ last.op = "new" /\ last.kind = "SA"
     /\ NSamples(last.xarg) = 1 /\ Len(last.yarg.v) = 1
     /\ FixedInvertible(last.cov, NDims(last.xarg)))
    => /\ self.alive
       /\ SA_evaluate(self, atleast_2d(last.xarg), NoneV).exc = "none"
       /\ SA_evaluate(self, atleast_2d(last.xarg), NoneV).output
              = <<Exactly(last.yarg.v[1])>>

\* What the caller of evaluate sees: the exception, and the output when
\* there is none.
Seen(r) == IF r.exc # "none" THEN <<r.exc>> ELSE <<"none", r.output>>

\* Both polynomial engines built from the same arguments exist and agree on
\* every query.
BothAgree(a, b) ==
    /\ a.exc = "none"
    /\ b.exc = "none"
    /\ \A points \in Points1 :
           Seen(LP1_evaluate(a.self, points, NoneV)) = Seen(LPN_evaluate(b.self, points, NoneV))

\* C7: LocalPolynomialKernel1D and LocalPolynomialKernel built from the same
\* one-dimensional xdata, the same ydata, q and covariance both construct and
\* return the same fitted value for every query point.
C7_OneDimensionalEnginesAgree ==
    (/\ last.op = "new" /\ last.kind \in {"LP1", "LPN"}
     /\ NDims(last.xarg) = 1
     /\ Len(last.yarg.v) = NSamples(last.xarg)
     /\ IsSc(Resolved(last.cov, atleast_2d(last.xarg), last.yarg)))
    => \A q \in 0..MaxQ :
           BothAgree(LP1_init(last.xarg, last.yarg, q, last.cov),
                     LPN_init(last.xarg, last.yarg, q, last.cov))

\* The dimension of the query points handed to evaluate.
PointDims(kind, points) ==
    IF IsVec(points) THEN 1
    ELSE IF kind = "LP1" THEN Len(points.m[1]) ELSE Len(points.m)

\* xdata and ydata differ in length, or the query points are not of the
\* training dimension.
Mismatched ==
    \/ Len(self.ydata.v) # NSamples(self.xdata)
    \/ PointDims(last.kind, last.points) # NDims(self.xdata)

\* C8: an evaluate on mismatched inputs raises, and does so before any
\* weighted solve has run; no fitted values are returned.
C8_MismatchDetectedBeforeSolve ==
    (last.op = "evaluate" /\ Mismatched)
    => /\ exc # "none"
       /\ ret.solves = 0
       /\ ~ret.returned

\* The normal matrix XWX of query point p is formed and singular.
LP1_singular(obj, p) ==
    /\ IsVec(obj.xdata)
    /\ Det(NormalMatrix(LP1_design(obj, p), LP1_weights(obj, p))) = Q(0)

LPN_formed(obj, dX, dm) ==
    /\ dm.exc = "none"
    /\ Det(NormalMatrix(dm.out, LPN_weights(inv(obj.bw).val.m, dX))) = Q(0)

LPN_singularOn(obj, dX, sz) ==
    /\ Len(obj.bw.m) = Len(dX)
    /\ LPN_formed(obj, dX,
                  designMatrix(dX, obj.q, sz[2],
                               Arr2([k \in 1..sz[1] |-> [n \in 1..obj.n |-> Uninit]])))

LPN_singular(obj, p) ==
    /\ LPN_diff(obj.xdata.m, p).exc = "none"
    /\ LPN_singularOn(obj, LPN_diff(obj.xdata.m, p).dX,
                      designMatrixSize(obj.d, obj.q, TRUE))

\* The indices (from 0) of the query points of the last evaluate whose
\* normal matrix is singular.
SingularPoints ==
    IF last.kind = "LP1"
    THEN {i \in 0..(Len(PointList(last.points)) - 1) :
             LP1_singular(self, PointList(last.points)[i + 1])}
    ELSE {i \in 0..(Len(atleast_2d(last.points).m[1]) - 1) :
             LPN_singular(self, Column(atleast_2d(last.points).m, i + 1))}

FirstOf(S) == CHOOSE i \in S : \A k \in S : i <= k

\* C9: when the normal matrix is singular at some query point, evaluate
\* returns no output: it raises the solver's LinAlgError at the first such
\* point, unless an earlier point has already raised.
C9_SingularNormalMatrixFails ==
    (last.op = "evaluate" /\ SingularPoints # {})
    => /\ ~ret.returned
       /\ \/ exc = "LinAlgError" /\ ret.at = FirstOf(SingularPoints)
          \/ exc \notin {"none", "LinAlgError"} /\ ret.at < FirstOf(SingularPoints)

\* The first query point is fitted, the second has a singular normal matrix
\* and its error ends the call.
C9_Witness ==
    /\ last.op = "evaluate"
    /\ exc = "LinAlgError"
    /\ ret.at = 1
    /\ ret.solves = 2
    /\ ~ret.returned
    /\ SingularPoints = {1}

\* Buffers of m numbers a caller may pass.
Buffers(m) == {Vec([k \in 1..m |-> Q(v)]) : v \in {0, 7}}

\* C10: a SpatialAverage with a fixed invertible covariance exists and its
\* evaluate puts into a caller's buffer, whatever it held, the values it
\* returns without a buffer.
C10_BufferHoldsSameValues ==
    (/\ last.op = "new" /\ last.kind = "SA"
     /\ Len(last.yarg.v) = NSamples(last.xarg)
     /\ FixedInvertible(last.cov, NDims(last.xarg)))
    => /\ self.alive
       /\ \A m \in 1..MaxPts :
              \A points \in {Mat([j \in 1..NDims(last.xarg) |-> c]) : c \in [1..m -> PVals]} :
                  \A buf \in Buffers(m) :
                      SA_evaluate(self, points, buf) = SA_evaluate(self, points, NoneV)

\* A covariance value that is a square matrix without an inverse.
Singular(v) == IsMat(v) /\ IsSquare(v.m) /\ Det(v.m) = Q(0)

\* The inverse covariance a SpatialAverage holds belongs to the covariance
\* it holds.
InverseMatches(obj) ==
    (obj.kind = "SA" /\ ~IsNone(obj.covariance))
        => /\ inv(obj.covariance).exc = "none"
           /\ obj.inv_cov = inv(obj.covariance).val

\* An assignment to a SpatialAverage's covariance (the constructor's
\* included) of a matrix without an inverse fails in the inversion and
\* leaves covariance, cached bandwidth and inverse covariance as they were.
SingularAssignmentRollsBack ==
    (/\ last'.op \in {"new", "set"} /\ last'.kind = "SA" /\ last'.entered
     /\ Singular(atleast_2d(Resolved(last'.cov, self'.xdata, self'.ydata))))
    => /\ exc' = "LinAlgError"
       /\ self'.covariance = self.covariance
       /\ self'.bw = self.bw
       /\ self'.inv_cov = self.inv_cov

=============================================================================
